---- MODULE Spec2Model ----
(***************************************************************************)
(* Model of swebench/collect/get_top_c_cpp.py: the fetch - filter - sort - *)
(* emit pipeline of get_github_projects_by_language, run once for          *)
(* "language:C" and once for "language:C++".                               *)
(*                                                                         *)
(* The two GitHub endpoints (api.search.repos, api.repos.list_languages)   *)
(* are the environment: every call either raises or returns a value drawn  *)
(* from a small set, independently of every earlier call.                  *)
(***************************************************************************)
EXTENDS Integers, Sequences, FiniteSets, TLC

VARIABLES
    max_repos,      \* --max-repos
    min_rank,       \* --min-rank
    max_rank,       \* --max-rank
    pc,             \* where the run is: "fetch", "filter", "open", "emit",
                    \* "done", or the call that raised out of the run:
                    \* "filter_raised", "emit_raised"
    lang,           \* the language being processed: "C", then "C++"
    page,           \* fetch_all_pages: page
    repos,          \* fetch_all_pages: repos; after its return,
                    \* fetch_and_filter_repos: repos
    reqLog,         \* history: the responses to the search requests of
                    \* fetch_all_pages, in order, kept until the caller's
                    \* loop starts
    raised,         \* history: the calls that raised, as <<language, site>>,
                    \* site "search", "filter" or "emit"
    i,              \* fetch_and_filter_repos: position of "for repo in repos"
    languages,      \* the last response of api.repos.list_languages
    eligible_repos, \* fetch_and_filter_repos: eligible_repos
    eligible,       \* eligible_c_repos / eligible_cpp_repos
    rank,           \* position of "for rank, repo in enumerate(..., start=1)"
    files,          \* the records written to each language's output file
    created,        \* the languages whose output file has been opened ("w")
    warned          \* the languages whose "Not enough ..." line was printed

vars == <<max_repos, min_rank, max_rank, pc, lang, page, repos, reqLog,
          raised, i, languages, eligible_repos, eligible, rank, files,
          created, warned>>

----------------------------------------------------------------------------
(* Bounds of the model *)

\* the largest --max-repos tried in SpecPass
MaxRepos == 3
\* the largest --max-repos tried in Spec
MaxReposRun == 1
\* the largest --min-rank / --max-rank tried
MaxRank == 2
\* the most items the search service puts in one page in Spec and SpecPass
PageLen == 2
\* the most non-empty pages the 100-per-page service of SpecFetch serves
MaxPages == 4

(* Program constants *)

\* per_page = 100
per_page == 100
\* --max-repos default
DefaultMaxRepos == 1000

\* the two passes: query_c = "language:C", query_cpp = "language:C++"
Langs == {"C", "C++"}

----------------------------------------------------------------------------
(* The environment's value sets *)

\* RepositorySummary: what a search item carries that the program reads.
\* full_name stands for owner.login / name / html_url as well (all are
\* copied through); two repositories share a star count.
Summaries ==
    { [full_name |-> "a", stargazers_count |-> 5],
      [full_name |-> "b", stargazers_count |-> 5],
      [full_name |-> "c", stargazers_count |-> 7] }

RECURSIVE SeqsUpTo(_, _)
\* the sequences over S of length 1..n
SeqsUpTo(S, n) ==
    IF n = 0 THEN {}
    ELSE LET shorter == SeqsUpTo(S, n - 1)
         IN  { <<x>> : x \in S } \cup shorter
               \cup { Append(s, x) : s \in shorter, x \in S }

\* the non-empty pages the search service returns in Spec
SmallPages == SeqsUpTo(Summaries, PageLen)

\* the non-empty page the service of SpecFetch returns for page p: n items,
\* numbered through the pages
MockPage(p, n) ==
    [k \in 1..n |->
        [full_name |-> (p - 1) * per_page + k, stargazers_count |-> 1]]

\* the sizes of the non-empty pages of SpecFetch: full pages and a short one
MockSizes == {per_page, 40}

\* LanguageBreakdown: the responses of list_languages
\*   an empty repository; C at exactly 0.9; C++ at exactly 0.9
Breakdowns ==
    { <<>>,
      ("C" :> 9 @@ "Other" :> 1),
      ("C" :> 1 @@ "C++" :> 9) }

----------------------------------------------------------------------------
(* Pure functions *)

Min(a, b) == IF a <= b THEN a ELSE b
Max(a, b) == IF a >= b THEN a ELSE b

\* a slice that is not taken: "return repos"
SliceAll(s, n) == s

\* Python's s[:n]
Slice(s, n) ==
    IF n >= 0 THEN SubSeq(s, 1, Min(n, Len(s)))
              ELSE SubSeq(s, 1, Max(0, Len(s) + n))

RECURSIVE SumValues(_)
\* sum(languages.values())
SumValues(d) ==
    IF DOMAIN d = {} THEN 0
    ELSE LET k == CHOOSE x \in DOMAIN d : TRUE
         IN  d[k] + SumValues([x \in DOMAIN d \ {k} |-> d[x]])

\* languages.get(key, 0)
Get(d, key) == IF key \in DOMAIN d THEN d[key] ELSE 0

RECURSIVE GCD(_, _)
GCD(a, b) == IF b = 0 THEN a ELSE GCD(b, a % b)

\* n / total for total > 0, as the fraction in lowest terms <<num, den>>.
\* (Python computes the double nearest to it; for line counts below 2^51
\* two quotients are the same double exactly when they are the same
\* fraction, and the order of a quotient and 0.9 is that of the fractions.)
TrueDiv(n, total) ==
    LET g == GCD(n, total) IN <<n \div g, total \div g>>

\* the int 0 of "... if total_lines > 0 else 0"
Zero == <<0, 1>>

\* calculate_language_ratios with cpp_lines read from the key 'C'
calculate_language_ratios_same_key(d) ==
    LET total_lines == SumValues(d)
        c_lines     == Get(d, "C")
        cpp_lines   == Get(d, "C")
    IN  [ c_ratio   |-> IF total_lines > 0 THEN TrueDiv(c_lines, total_lines)
                                         ELSE Zero,
          cpp_ratio |-> IF total_lines > 0 THEN TrueDiv(cpp_lines, total_lines)
                                         ELSE Zero ]

\* calculate_language_ratios(languages)
calculate_language_ratios(d) ==
    LET total_lines == SumValues(d)
        c_lines     == Get(d, "C")
        cpp_lines   == Get(d, "C++")
    IN  [ c_ratio   |-> IF total_lines > 0 THEN TrueDiv(c_lines, total_lines)
                                         ELSE Zero,
          cpp_ratio |-> IF total_lines > 0 THEN TrueDiv(cpp_lines, total_lines)
                                         ELSE Zero ]

\* language_key: "c_ratio" for the C pass, "cpp_ratio" for the C++ pass
LanguageKey(l) == IF l = "C" THEN "c_ratio" ELSE "cpp_ratio"

\* the ratio_threshold passed for both languages: 0.9
ratio_threshold == <<9, 10>>

\* "ratios[language_key] > ratio_threshold"
KeepsAbove(ratio, threshold) == ratio[1] * threshold[2] > threshold[1] * ratio[2]

\* ratios[language_key] >= ratio_threshold
Keeps(ratio, threshold) == ratio[1] * threshold[2] >= threshold[1] * ratio[2]

RECURSIVE InsertByStars(_, _)
\* s is sorted by stars, descending; e goes after every element with at
\* least as many stars
InsertByStars(s, e) ==
    IF s = <<>> THEN <<e>>
    ELSE IF s[1].stargazers_count >= e.stargazers_count
         THEN <<s[1]>> \o InsertByStars(Tail(s), e)
         ELSE <<e>> \o s

RECURSIVE InsertBeforeEqual(_, _)
\* e goes before the elements with as many stars
InsertBeforeEqual(s, e) ==
    IF s = <<>> THEN <<e>>
    ELSE IF s[1].stargazers_count > e.stargazers_count
         THEN <<s[1]>> \o InsertBeforeEqual(Tail(s), e)
         ELSE <<e>> \o s

RECURSIVE SortByStarsUnstable(_)
\* a descending sort that reverses the repositories with equal stars
SortByStarsUnstable(s) ==
    IF s = <<>> THEN <<>>
    ELSE InsertBeforeEqual(SortByStarsUnstable(SubSeq(s, 1, Len(s) - 1)),
                           s[Len(s)])

RECURSIVE SortByStars(_)
\* eligible_repos.sort(key=lambda x: x["stargazers_count"], reverse=True):
\* list.sort is stable, also with reverse=True
SortByStars(s) ==
    IF s = <<>> THEN <<>>
    ELSE InsertByStars(SortByStars(SubSeq(s, 1, Len(s) - 1)), s[Len(s)])

\* the JSON object with the ratio of the other language under its key
RankedRecordOtherKey(l, r, repo, d) ==
    IF l = "C"
    THEN [ rank |-> r, name |-> repo.full_name,
           stars |-> repo.stargazers_count,
           c_ratio |-> calculate_language_ratios(d)["cpp_ratio"] ]
    ELSE [ rank |-> r, name |-> repo.full_name,
           stars |-> repo.stargazers_count,
           cpp_ratio |-> calculate_language_ratios(d)["c_ratio"] ]

\* the JSON object written for one repository
RankedRecord(l, r, repo, d) ==
    IF l = "C"
    THEN [ rank |-> r, name |-> repo.full_name,
           stars |-> repo.stargazers_count,
           c_ratio |-> calculate_language_ratios(d)["c_ratio"] ]
    ELSE [ rank |-> r, name |-> repo.full_name,
           stars |-> repo.stargazers_count,
           cpp_ratio |-> calculate_language_ratios(d)["cpp_ratio"] ]

----------------------------------------------------------------------------
(* Initial states *)

\* the state at the call of get_github_projects_by_language, --max-repos
\* from M, --min-rank from RMin, --max-rank from RMax
InitWith(M, RMin, RMax) ==
    /\ max_repos \in M
    /\ min_rank \in RMin
    /\ max_rank \in RMax
    /\ pc = "fetch"
    /\ lang = "C"
    /\ page = 1
    /\ repos = <<>>
    /\ reqLog = <<>>
    /\ raised = {}
    /\ i = 1
    /\ languages = <<>>
    /\ eligible_repos = <<>>
    /\ eligible = [l \in Langs |-> <<>>]
    /\ rank = 1
    /\ files = [l \in Langs |-> <<>>]
    /\ created = {}
    /\ warned = {}

Init == InitWith(0..MaxReposRun, (0 - 1)..MaxRank, 0..MaxRank)

----------------------------------------------------------------------------
(* fetch_all_pages *)

\* "return repos[:max_repos]" into fetch_and_filter_repos, whose loop starts
ReturnRepos(all) ==
    /\ repos' = Slice(all, max_repos)
    /\ pc' = "filter"
    /\ i' = 1
    /\ eligible_repos' = <<>>

\* one iteration of the while loop: the page has items
FetchPageOk(items) ==
    /\ pc = "fetch"
    /\ Len(repos) < max_repos
    /\ items # <<>>
    /\ reqLog' = Append(reqLog, [page |-> page, ok |-> TRUE, items |-> items])
    /\ repos' = repos \o items
    /\ page' = page + 1
    /\ UNCHANGED <<max_repos, min_rank, max_rank, raised, pc, lang, i, languages,
                   eligible_repos, eligible, rank, files, created, warned>>

\* FetchPageEmpty without its break: the loop asks for the next page
FetchPageEmptyGoesOn ==
    /\ pc = "fetch"
    /\ Len(repos) < max_repos
    /\ reqLog' = Append(reqLog, [page |-> page, ok |-> TRUE, items |-> <<>>])
    /\ page' = page + 1
    /\ page <= MaxPages
    /\ UNCHANGED <<max_repos, min_rank, max_rank, raised, pc, lang, repos, i,
                   languages, eligible_repos, eligible, rank, files, created,
                   warned>>

\* one iteration of the while loop: the page is empty, break
FetchPageEmpty ==
    /\ pc = "fetch"
    /\ Len(repos) < max_repos
    /\ reqLog' = Append(reqLog, [page |-> page, ok |-> TRUE, items |-> <<>>])
    /\ ReturnRepos(repos)
    /\ UNCHANGED <<max_repos, min_rank, max_rank, raised, lang, page, languages,
                   eligible, rank, files, created, warned>>

\* FetchPageError with a retry: the loop asks for the same page again
FetchPageErrorRetries ==
    /\ pc = "fetch"
    /\ Len(repos) < max_repos
    /\ reqLog' = Append(reqLog, [page |-> page, ok |-> FALSE, items |-> <<>>])
    /\ raised' = raised \cup {<<lang, "search">>}
    /\ Len(reqLog) <= MaxPages
    /\ UNCHANGED <<max_repos, min_rank, max_rank, pc, lang, page, repos, i,
                   languages, eligible_repos, eligible, rank, files, created,
                   warned>>

\* one iteration of the while loop: the request raises, break
FetchPageError ==
    /\ pc = "fetch"
    /\ Len(repos) < max_repos
    /\ reqLog' = Append(reqLog, [page |-> page, ok |-> FALSE, items |-> <<>>])
    /\ raised' = raised \cup {<<lang, "search">>}
    /\ ReturnRepos(repos)
    /\ UNCHANGED <<max_repos, min_rank, max_rank, lang, page, languages,
                   eligible, rank, files, created, warned>>

\* the while condition is false
FetchReturn ==
    /\ pc = "fetch"
    /\ ~(Len(repos) < max_repos)
    /\ ReturnRepos(repos)
    /\ UNCHANGED <<max_repos, min_rank, max_rank, raised, lang, page, reqLog,
                   languages, eligible, rank, files, created, warned>>

----------------------------------------------------------------------------
(* fetch_and_filter_repos *)

\* the repository appended to eligible_repos; at_filter is history: the
\* breakdown list_languages returned for it in the filter loop
Kept(repo, d) ==
    [ full_name |-> repo.full_name,
      stargazers_count |-> repo.stargazers_count,
      at_filter |-> d ]

\* eligible_repos after the body of "for repo in repos" ran for repo, the
\* breakdown fetched being d
AfterFilter(kept, l, repo, d) ==
    IF Keeps(calculate_language_ratios(d)[LanguageKey(l)], ratio_threshold)
    THEN Append(kept, Kept(repo, d))
    ELSE kept

\* one iteration of the for loop: list_languages returns d
FilterStep(d) ==
    /\ pc = "filter"
    /\ i <= Len(repos)
    /\ languages' = d
    /\ eligible_repos' = AfterFilter(eligible_repos, lang, repos[i], d)
    /\ i' = i + 1
    /\ reqLog' = <<>>
    /\ UNCHANGED <<max_repos, min_rank, max_rank, raised, pc, lang,
                   page, repos, eligible, rank, files, created, warned>>

\* FilterRaise with the exception caught in the loop: the repository is
\* skipped
FilterRaiseSkips ==
    /\ pc = "filter"
    /\ i <= Len(repos)
    /\ raised' = raised \cup {<<lang, "filter">>}
    /\ i' = i + 1
    /\ reqLog' = <<>>
    /\ UNCHANGED <<max_repos, min_rank, max_rank, pc, lang, page, repos,
                   languages, eligible_repos, eligible, rank, files, created,
                   warned>>

\* one iteration of the for loop: list_languages raises; nothing catches it
\* up to the end of the script, and the locals of fetch_and_filter_repos are
\* gone
FilterRaise ==
    /\ pc = "filter"
    /\ i <= Len(repos)
    /\ pc' = "filter_raised"
    /\ raised' = raised \cup {<<lang, "filter">>}
    /\ reqLog' = <<>>
    /\ repos' = <<>>
    /\ eligible_repos' = <<>>
    /\ i' = 1
    /\ languages' = <<>>
    /\ UNCHANGED <<max_repos, min_rank, max_rank, lang, page, eligible, rank,
                   files, created, warned>>

\* the for loop is over: sort, return into eligible_c_repos or
\* eligible_cpp_repos; the locals of fetch_and_filter_repos are gone
FilterReturn ==
    /\ pc = "filter"
    /\ i > Len(repos)
    /\ eligible' = [eligible EXCEPT ![lang] = SortByStars(eligible_repos)]
    /\ eligible_repos' = <<>>
    /\ repos' = <<>>
    /\ languages' = <<>>
    /\ reqLog' = <<>>
    /\ pc' = "open"
    /\ UNCHANGED <<max_repos, min_rank, max_rank, raised, lang, page, i,
                   rank, files, created, warned>>

----------------------------------------------------------------------------
(* get_github_projects_by_language: the two "with open(...)" blocks *)

\* "len(eligible) < min_rank"
NotEnough(n, lo) == n < lo

\* a window that leaves its upper end out
InWindowHalfOpen(r, lo, hi) == lo <= r /\ r < hi

\* "min_rank <= rank <= max_rank"
InWindow(r, lo, hi) == lo <= r /\ r <= hi

\* the with block of l is left: the C++ pass follows the C pass, the
\* function returns after the C++ pass
Advance(l) ==
    IF l = "C"
    THEN /\ lang' = "C++"
         /\ pc' = "fetch"
         /\ page' = 1
         /\ repos' = <<>>
         /\ reqLog' = <<>>
    ELSE /\ pc' = "done"
         /\ UNCHANGED <<lang, page, repos, reqLog>>

\* OpenWarn with a return after the message
OpenWarnReturns ==
    /\ pc = "open"
    /\ NotEnough(Len(eligible[lang]), min_rank)
    /\ created' = created \cup {lang}
    /\ files' = [files EXCEPT ![lang] = <<>>]
    /\ warned' = warned \cup {lang}
    /\ pc' = "done"
    /\ UNCHANGED <<max_repos, min_rank, max_rank, raised, lang, page, repos,
                   reqLog, i, languages, eligible_repos, eligible, rank>>

\* open(..., "w") creates or truncates the file; too few repositories:
\* the message is printed and nothing is written
OpenWarn ==
    /\ pc = "open"
    /\ NotEnough(Len(eligible[lang]), min_rank)
    /\ created' = created \cup {lang}
    /\ files' = [files EXCEPT ![lang] = <<>>]
    /\ warned' = warned \cup {lang}
    /\ Advance(lang)
    /\ UNCHANGED <<max_repos, min_rank, max_rank, raised, i, languages,
                   eligible_repos, eligible, rank>>

\* open(..., "w") creates or truncates the file; the enumerate loop starts
OpenEmit ==
    /\ pc = "open"
    /\ ~NotEnough(Len(eligible[lang]), min_rank)
    /\ created' = created \cup {lang}
    /\ files' = [files EXCEPT ![lang] = <<>>]
    /\ rank' = 1
    /\ pc' = "emit"
    /\ UNCHANGED <<max_repos, min_rank, max_rank, raised, lang, page, repos, reqLog,
                   i, languages, eligible_repos, eligible, warned>>

\* one iteration of the enumerate loop, rank in the window: list_languages
\* returns d, the record is printed to the file and flushed
EmitRecord(d) ==
    /\ pc = "emit"
    /\ rank <= Len(eligible[lang])
    /\ InWindow(rank, min_rank, max_rank)
    /\ languages' = d
    /\ files' = [files EXCEPT ![lang] =
                    Append(@, RankedRecord(lang, rank, eligible[lang][rank], d))]
    /\ rank' = rank + 1
    /\ UNCHANGED <<max_repos, min_rank, max_rank, raised, pc, lang, page, repos,
                   reqLog, i, eligible_repos, eligible, created, warned>>

\* one iteration of the enumerate loop, rank in the window: list_languages
\* raises; the with block closes the file and nothing catches the exception
EmitRaise ==
    /\ pc = "emit"
    /\ rank <= Len(eligible[lang])
    /\ InWindow(rank, min_rank, max_rank)
    /\ pc' = "emit_raised"
    /\ raised' = raised \cup {<<lang, "emit">>}
    /\ UNCHANGED <<max_repos, min_rank, max_rank, lang, page, repos, reqLog,
                   i, languages, eligible_repos, eligible, rank, files,
                   created, warned>>

\* one iteration of the enumerate loop, rank outside the window
EmitSkip ==
    /\ pc = "emit"
    /\ rank <= Len(eligible[lang])
    /\ ~InWindow(rank, min_rank, max_rank)
    /\ rank' = rank + 1
    /\ UNCHANGED <<max_repos, min_rank, max_rank, raised, pc, lang, page, repos,
                   reqLog, i, languages, eligible_repos, eligible, files,
                   created, warned>>

\* the enumerate loop is over
EmitDone ==
    /\ pc = "emit"
    /\ rank > Len(eligible[lang])
    /\ languages' = <<>>
    /\ Advance(lang)
    /\ UNCHANGED <<max_repos, min_rank, max_rank, raised, i, eligible_repos,
                   eligible, rank, files, created, warned>>

----------------------------------------------------------------------------
(* Specifications *)

\* one step of the run; the search service returns short pages
Next ==
    \/ \E items \in SmallPages : FetchPageOk(items)
    \/ FetchPageEmpty
    \/ FetchPageError
    \/ FetchReturn
    \/ \E d \in Breakdowns : FilterStep(d)
    \/ FilterRaise
    \/ FilterReturn
    \/ OpenWarn
    \/ OpenEmit
    \/ \E d \in Breakdowns : EmitRecord(d)
    \/ EmitRaise
    \/ EmitSkip
    \/ EmitDone

\* the whole run, both passes, for small --max-repos
Spec == Init /\ [][Next]_vars

InitPass == InitWith(0..MaxRepos, (0 - 1)..MaxRank, 0..MaxRank)

\* one pass in depth: the C pass, and the C++ pass where it follows a C
\* pass that found no eligible repository
InDepth == lang = "C++" => eligible["C"] = <<>>

NextPass ==
    \/ InDepth /\ \E items \in SmallPages : FetchPageOk(items)
    \/ InDepth /\ FetchPageEmpty
    \/ InDepth /\ FetchPageError
    \/ InDepth /\ FetchReturn
    \/ InDepth /\ \E d \in Breakdowns : FilterStep(d)
    \/ InDepth /\ FilterRaise
    \/ InDepth /\ FilterReturn
    \/ InDepth /\ OpenWarn
    \/ InDepth /\ OpenEmit
    \/ InDepth /\ \E d \in Breakdowns : EmitRecord(d)
    \/ InDepth /\ EmitRaise
    \/ InDepth /\ EmitSkip
    \/ InDepth /\ EmitDone

SpecPass == InitPass /\ [][NextPass]_vars

\* --max-repos values around the page size
MockMaxRepos == {0, 1, 99, per_page, 101, 150, 250, 300, DefaultMaxRepos}

InitFetch == InitWith(MockMaxRepos, {50}, {100})

\* fetch_all_pages("language:C", max_repos) against a service that serves
\* pages of per_page items, or a short page, at most MaxPages of them
NextFetch ==
    \/ \E n \in MockSizes : page <= MaxPages /\ FetchPageOk(MockPage(page, n))
    \/ FetchPageEmpty
    \/ FetchPageError
    \/ FetchReturn

SpecFetch == InitFetch /\ [][NextFetch]_vars

----------------------------------------------------------------------------
(* History read by the properties *)

RECURSIVE ConcatItems(_)
\* the items of the logged responses, in the order they came
ConcatItems(log) ==
    IF log = <<>> THEN <<>>
    ELSE ConcatItems(SubSeq(log, 1, Len(log) - 1)) \o log[Len(log)].items

\* the first n of s
FirstN(s, n) == [k \in 1..(IF n < Len(s) THEN n ELSE Len(s)) |-> s[k]]

\* a response that ends the paging: an exception or an empty page
Ends(r) == ~r.ok \/ r.items = <<>>

\* fetch_all_pages has just returned: the caller's loop has not started
Returned == pc = "filter" /\ i = 1

----------------------------------------------------------------------------
(* C2: fetch_all_pages asks for pages 1, 2, 3, ... in order; every request  *)
(* is made while fewer than max_repos items are accumulated and no earlier  *)
(* response was empty or an exception; it returns only once one of the      *)
(* three holds; three pages of 100 and an empty page give 300 items for     *)
(* max_repos = 1000.                                                        *)

C2_Sizes == [k \in 1..Len(reqLog) |-> Len(reqLog[k].items)]

C2_PagingStopsExactly ==
    /\ \A k \in 1..Len(reqLog) :
          /\ reqLog[k].page = k
          /\ Len(ConcatItems(SubSeq(reqLog, 1, k - 1))) < max_repos
          /\ \A j \in 1..(k - 1) : ~Ends(reqLog[j])
    /\ pc = "fetch" =>
          /\ page = Len(reqLog) + 1
          /\ \A k \in 1..Len(reqLog) : ~Ends(reqLog[k])
    /\ Returned =>
          \/ Len(ConcatItems(reqLog)) >= max_repos
          \/ reqLog # <<>> /\ Ends(reqLog[Len(reqLog)])
    /\ ( /\ Returned
         /\ max_repos = 1000
         /\ C2_Sizes = <<100, 100, 100, 0>>
         /\ \A k \in 1..4 : reqLog[k].ok )
       => Len(repos) = 300

C2_Witness ==
    /\ Returned
    /\ max_repos = 1000
    /\ C2_Sizes = <<100, 100, 100, 0>>
    /\ reqLog[4].ok
    /\ Len(repos) = 300

----------------------------------------------------------------------------
(* C4: the list fetch_all_pages returns is the first max_repos items of     *)
(* the fetched pages, in the order of the service: never longer than        *)
(* max_repos, and exactly max_repos long when no page was empty and no      *)
(* request raised.                                                          *)

C4_TruncatedToMax ==
    Returned =>
        /\ repos = FirstN(ConcatItems(reqLog), max_repos)
        /\ Len(repos) <= max_repos
        /\ (\A k \in 1..Len(reqLog) : ~Ends(reqLog[k])) => Len(repos) = max_repos

\* the last page overshoots a max_repos that is no multiple of the page size
C4_Witness ==
    /\ Returned
    /\ max_repos % per_page # 0
    /\ Len(ConcatItems(reqLog)) > max_repos
    /\ Len(repos) = max_repos
    /\ Len(reqLog) >= 2

----------------------------------------------------------------------------
(* C3: a search request that raises is the last request of its              *)
(* fetch_all_pages call (no retry, no later page); the call returns, into   *)
(* the filter loop, the items of the pages fetched before it, in order,     *)
(* and the run goes on with them.                                           *)

C3_FailureReturnsPartial ==
    /\ \A k \in 1..Len(reqLog) : ~reqLog[k].ok => k = Len(reqLog)
    /\ (reqLog # <<>> /\ ~reqLog[Len(reqLog)].ok) =>
          /\ Returned
          /\ <<lang, "search">> \in raised
          /\ repos = FirstN(ConcatItems(reqLog), max_repos)
          /\ ENABLED (FilterReturn \/ \E d \in Breakdowns : FilterStep(d))
    /\ \A l \in Langs :
          <<l, "search">> \in raised /\ pc \in {"filter_raised", "emit_raised"}
              => \E site \in {"filter", "emit"} : <<lang, site>> \in raised

\* the second request raised, and a repository of the first page was
\* written to the C file
C3_Witness ==
    /\ <<"C", "search">> \in raised
    /\ page = 2
    /\ files["C"] # <<>>

----------------------------------------------------------------------------
(* C1: the ranks written to a language's file are, in increasing order,     *)
(* the ranks of [min_rank, max_rank] among the 1..k walked so far; k is the *)
(* number N of eligible repositories once the with block is left, so the    *)
(* file then holds exactly [min_rank, max_rank] intersected with [1, N].    *)

\* the ranks of [lo, hi] in [1, n], increasing
C1_Window(lo, hi, n) ==
    LET first == IF lo > 1 THEN lo ELSE 1
        last  == IF hi < n THEN hi ELSE n
    IN  [k \in 1..(last - first + 1) |-> first + k - 1]

\* the with block of l has been left without an exception
C1_Closed(l) ==
    /\ l \in created
    /\ l = lang => pc = "done"

\* how many of the ranked repositories of l the enumerate loop has passed
C1_Walked(l) ==
    IF l \notin created THEN 0
    ELSE IF l = lang /\ pc \in {"emit", "emit_raised"} THEN rank - 1
    ELSE Len(eligible[l])

C1_Ranks(l) == [k \in 1..Len(files[l]) |-> files[l][k].rank]

C1_RanksAreTheWindow ==
    \A l \in Langs :
        /\ C1_Ranks(l) = C1_Window(min_rank, max_rank, C1_Walked(l))
        /\ C1_Closed(l) => C1_Walked(l) = Len(eligible[l])

\* a window strictly inside 1..N: ranks 1 and 3 are walked and not written
C1_Witness ==
    \E l \in Langs :
        /\ C1_Closed(l)
        /\ Len(eligible[l]) = 3
        /\ min_rank = 2
        /\ max_rank = 2
        /\ C1_Ranks(l) = <<2>>

----------------------------------------------------------------------------
(* C5: the records of a file are in descending order of stars, and the      *)
(* ranked list is the stable sort of the filtered list: sorted, and the     *)
(* repositories with the same stars in the order the filter kept them.      *)

C5_Descending(s) ==
    \A a, b \in 1..Len(s) : a < b => s[a].stars >= s[b].stars

C5_SameStars(s, n) == SelectSeq(s, LAMBDA e : e.stargazers_count = n)

C5_StableSortOf(out, in) ==
    /\ Len(out) = Len(in)
    /\ \A a, b \in 1..Len(out) :
          a < b => out[a].stargazers_count >= out[b].stargazers_count
    /\ \A e \in {in[k] : k \in 1..Len(in)} :
          C5_SameStars(out, e.stargazers_count)
              = C5_SameStars(in, e.stargazers_count)

C5_SortedStable ==
    /\ [](\A l \in Langs : C5_Descending(files[l]))
    /\ [][pc = "filter" /\ pc' = "open"
            => C5_StableSortOf(eligible'[lang], eligible_repos)]_vars

\* b was fetched before a, both have 5 stars, c has 7
C5_Witness ==
    \E l \in Langs :
        /\ Len(eligible[l]) = 3
        /\ eligible[l][3].full_name = "a"
        /\ Len(files[l]) = 2
        /\ files[l][1].name = "c"
        /\ files[l][2].name = "b"

----------------------------------------------------------------------------
(* C6: an iteration of the filter loop keeps the repository exactly when    *)
(* the lines of the target language are at least 0.9 of all lines of the    *)
(* breakdown just fetched; a breakdown without lines is never kept.         *)

C6_Target(l) == IF l = "C" THEN "C" ELSE "C++"

C6_Lines(d, l) == IF C6_Target(l) \in DOMAIN d THEN d[C6_Target(l)] ELSE 0

\* lines / total >= 0.9, without dividing
C6_AtLeastNineTenths(d, l) ==
    /\ SumValues(d) > 0
    /\ 10 * C6_Lines(d, l) >= 9 * SumValues(d)

----------------------------------------------------------------------------
(* C7: with fewer eligible repositories than min_rank, and only then, the   *)
(* message is printed; the file of the language is created and stays        *)
(* empty, and the run goes on: after the message for C the C++ pass runs.   *)

C7_TooFewWritesNothing ==
    /\ \A l \in Langs :
          /\ l \in warned <=> (l \in created /\ Len(eligible[l]) < min_rank)
          /\ l \in warned => files[l] = <<>>
    /\ "C" \in warned => lang = "C++"
    /\ ("C" \in warned /\ pc \in {"filter_raised", "emit_raised"})
          => \E site \in {"filter", "emit"} : <<"C++", site>> \in raised
    /\ pc = "done" => created = Langs

\* no C repository was eligible, the C++ file got a record
C7_Witness ==
    /\ "C" \in warned
    /\ "C" \in created
    /\ files["C"] = <<>>
    /\ files["C++"] # <<>>
    /\ pc = "done"

----------------------------------------------------------------------------
(* C8, as claimed: no repository is written to both files.                  *)

C8_Names(l) == {files[l][k].name : k \in 1..Len(files[l])}

C8_NoRepoInBothFiles == C8_Names("C") \cap C8_Names("C++") = {}

(* C8, amended: a repository is written to both files only when the        *)
(* breakdown that made it eligible in the C pass is not the breakdown that  *)
(* made it eligible in the C++ pass.                                        *)

C8_InBothOnlyIfBreakdownChanged ==
    \A a \in 1..Len(files["C"]), b \in 1..Len(files["C++"]) :
        files["C"][a].name = files["C++"][b].name
            => eligible["C"][files["C"][a].rank].at_filter
                 # eligible["C++"][files["C++"][b].rank].at_filter

\* both queries returned the repository, and its breakdown changed
C8_Witness ==
    /\ C8_Names("C") \cap C8_Names("C++") # {}
    /\ pc = "done"

----------------------------------------------------------------------------
(* C9: an exception of list_languages in the filter loop ends the run      *)
(* there: no step follows, the file of the language being filtered is not   *)
(* opened and has no record; in the C pass no file is opened, in the C++    *)
(* pass the C file is closed already.                                       *)

C9_FilterFailureIsFatal ==
    \A l \in Langs :
        <<l, "filter">> \in raised =>
            /\ pc = "filter_raised"
            /\ lang = l
            /\ ~ENABLED Next
            /\ l \notin created
            /\ files[l] = <<>>
            /\ l = "C" => created = {} /\ files["C++"] = <<>>
            /\ l = "C++" => "C" \in created

\* the C file was written, the C++ filter raised
C9_Witness ==
    /\ <<"C++", "filter">> \in raised
    /\ files["C"] # <<>>
    /\ "C++" \notin created

----------------------------------------------------------------------------
(* C10, as claimed: every record written is the record the program with    *)
(* the cache writes, and its ratio is at least 0.9.                         *)

C10_Ratio(l, rec) == IF l = "C" THEN rec.c_ratio ELSE rec.cpp_ratio

C10_AtLeastNineTenths(r) == 10 * r[1] >= 9 * r[2]

\* the record the program with the cache writes for rank r of l
C10_Cached(l, r) ==
    RankedRecord(l, r, eligible[l][r], eligible[l][r].at_filter)

C10_CacheChangesNothing ==
    \A l \in Langs : \A k \in 1..Len(files[l]) :
        /\ files[l][k] = C10_Cached(l, files[l][k].rank)
        /\ C10_AtLeastNineTenths(C10_Ratio(l, files[l][k]))

(* C10, amended: rank, name and stars of every record are those the        *)
(* program with the cache writes, whose ratio is always at least 0.9; the   *)
(* record just written is the cached one, ratio included, when the          *)
(* breakdown fetched for it is the one fetched for it in the filter loop.   *)

\* the enumerate loop has just written the record of rank - 1
C10_JustWrote ==
    /\ pc = "emit"
    /\ files[lang] # <<>>
    /\ files[lang][Len(files[lang])].rank = rank - 1

C10_SameWhenBreakdownSame ==
    /\ \A l \in Langs : \A k \in 1..Len(files[l]) :
          LET rec == files[l][k]
              c   == C10_Cached(l, rec.rank)
          IN  /\ rec.rank = c.rank
              /\ rec.name = c.name
              /\ rec.stars = c.stars
              /\ C10_AtLeastNineTenths(C10_Ratio(l, c))
    /\ (C10_JustWrote /\ languages = eligible[lang][rank - 1].at_filter) =>
          LET rec == files[lang][Len(files[lang])]
          IN  /\ rec = C10_Cached(lang, rank - 1)
              /\ C10_AtLeastNineTenths(C10_Ratio(lang, rec))

\* the first record was written from a changed breakdown, the second from
\* the breakdown of the filter loop
C10_Witness ==
    /\ C10_JustWrote
    /\ Len(files[lang]) = 2
    /\ files[lang][1] # C10_Cached(lang, files[lang][1].rank)
    /\ languages = eligible[lang][rank - 1].at_filter
    /\ files[lang][2] = C10_Cached(lang, rank - 1)

====
